---- MODULE Spec2Model ----
(***************************************************************************)
(* Jordan Air Quality Monitoring dashboard (src/app.py).                   *)
(*                                                                         *)
(* app.py is a Streamlit script: the whole file is executed top to bottom  *)
(* once per "script run", and a new run is started by every user           *)
(* interaction (widget change, button click, manual rerun).  The widget    *)
(* values are the only state the session keeps between runs; everything    *)
(* else (authentication result, config, dates, image handle, results,      *)
(* the rendered elements) is rebuilt by each run.                          *)
(*                                                                         *)
(* Representation.  Python strings that the code formats, splits or        *)
(* concatenates are sequences of one-character strings; strings the code   *)
(* only passes around (dataset ids, band names, units, city names) are     *)
(* TLA+ strings.  An optional value (Python None / "element not rendered") *)
(* is a sequence of length 0, a present value x is <<x>>.  A Python dict   *)
(* is a function from its keys.  The registry's float display ranges       *)
(* are integers in units of 10^-4.  A CSV file is the sequence of its      *)
(* lines, a line the sequence of its fields.                               *)
(***************************************************************************)
EXTENDS Integers, Sequences, FiniteSets, TLC

None == <<>>
Some(x) == <<x>>

-----------------------------------------------------------------------------
(* Python string primitives used by app.py                                 *)

Digit(d) == CASE d = 0 -> "0" [] d = 1 -> "1" [] d = 2 -> "2" [] d = 3 -> "3"
              [] d = 4 -> "4" [] d = 5 -> "5" [] d = 6 -> "6" [] d = 7 -> "7"
              [] d = 8 -> "8" [] d = 9 -> "9"

RECURSIVE Str(_)
\* str(n) / f"{n}" for a non-negative integer: its decimal digits.
Str(n) == IF n < 10 THEN <<Digit(n)>> ELSE Str(n \div 10) \o <<Digit(n % 10)>>

RECURSIVE ZeroFill(_, _)
ZeroFill(s, w) == IF Len(s) >= w THEN s ELSE ZeroFill(<<"0">> \o s, w)

\* f"{n:02d}": decimal digits, left-padded with zeros to width 2.
Fmt02d(n) == ZeroFill(Str(n), 2)

RECURSIVE SplitFirst(_)
\* s.split(" ")[0]: the characters before the first space (all of s if none).
SplitFirst(s) == IF s = <<>> \/ Head(s) = " " THEN <<>>
                 ELSE <<Head(s)>> \o SplitFirst(Tail(s))

\* d.get(k): the value under k, None when k is not a key.
DictGet(d, k) == IF k \in DOMAIN d THEN d[k] ELSE None

-----------------------------------------------------------------------------
(* Static data of the script                                               *)

\* the option strings of the selectbox (lines 58-61)
NO2Name == <<"N","i","t","r","o","g","e","n"," ","D","i","o","x","i","d","e",
             " ","(","N","O","2",")">>
SO2Name == <<"S","u","l","f","u","r"," ","D","i","o","x","i","d","e",
             " ","(","S","O","2",")">>
COName  == <<"C","a","r","b","o","n"," ","M","o","n","o","x","i","d","e",
             " ","(","C","O",")">>
AerName == <<"A","e","r","o","s","o","l"," ","I","n","d","e","x",
             " ","(","D","u","s","t","/","S","m","o","k","e",")">>

\* the key strings of the gas_configs dict (lines 80, 88, 96, 104)
KeyNO2 == <<"N","i","t","r","o","g","e","n"," ","D","i","o","x","i","d","e",
            " ","(","N","O","2",")">>
KeySO2 == <<"S","u","l","f","u","r"," ","D","i","o","x","i","d","e",
            " ","(","S","O","2",")">>
KeyCO  == <<"C","a","r","b","o","n"," ","M","o","n","o","x","i","d","e",
            " ","(","C","O",")">>
KeyAer == <<"A","e","r","o","s","o","l"," ","I","n","d","e","x",
            " ","(","D","u","s","t","/","S","m","o","k","e",")">>

\* options of the pollutant selectbox, in order
PollutantOptions == <<NO2Name, SO2Name, COName, AerName>>

YearMin == 2019
YearMax == 2025
YearDefault == 2024
\* options of the month select_slider: list(range(1, 13))
MonthOptions == [i \in 1..12 |-> i]

Palette7 == <<"black", "blue", "purple", "cyan", "green", "yellow", "red">>
Palette5 == <<"blue", "green", "yellow", "orange", "red">>

gas_configs ==
    (KeyNO2 :> [collection |-> "COPERNICUS/S5P/OFFL/L3_NO2",
                 band |-> "tropospheric_NO2_column_number_density",
                 min |-> 0, max |-> 2, palette |-> Palette7, unit |-> "mol/m²"])
 @@ (KeySO2 :> [collection |-> "COPERNICUS/S5P/OFFL/L3_SO2",
                 band |-> "SO2_column_number_density",
                 min |-> 0, max |-> 5, palette |-> Palette5, unit |-> "mol/m²"])
 @@ (KeyCO  :> [collection |-> "COPERNICUS/S5P/OFFL/L3_CO",
                 band |-> "CO_column_number_density",
                 min |-> 0, max |-> 500, palette |-> Palette7, unit |-> "mol/m²"])
 @@ (KeyAer :> [collection |-> "COPERNICUS/S5P/OFFL/L3_AER_AI",
                 band |-> "absorbing_aerosol_index",
                 min |-> -10000, max |-> 20000, palette |-> Palette7, unit |-> "Index"])

\* gas_configs[name]: the profile, or a KeyError (None here) for a missing key.
ConfigLookupDefaulting(name) ==
    IF name \in DOMAIN gas_configs THEN Some(gas_configs[name])
    ELSE Some(gas_configs[KeyNO2])
ConfigLookup(name) ==
    IF name \in DOMAIN gas_configs THEN Some(gas_configs[name]) ELSE None

\* keys of the locations dict, in insertion order (the order items() yields)
locations == <<"Irbid", "Amman", "Zarqa", "Aqaba", "Mafraq">>

\* start_date / end_date strings of the date handling
StartDate(y, m) == Str(y) \o <<"-">> \o Fmt02d(m) \o <<"-", "0", "1">>
EndDateNoRollover(y, m) == Str(y) \o <<"-">> \o Fmt02d(m + 1) \o <<"-", "0", "1">>
EndDate(y, m) ==
    IF m < 12 THEN Str(y) \o <<"-">> \o Fmt02d(m + 1) \o <<"-", "0", "1">>
    ELSE Str(y + 1) \o <<"-", "0", "1", "-", "0", "1">>

\* f"{year}-{month:02d}" of a report row
DateLabel(y, m) == Str(y) \o <<"-">> \o Fmt02d(m)

FilePrefix == <<"J","o","r","d","a","n","_","A","i","r","Q","u","a","l","i","t","y","_">>
FileSuffix == <<".", "c", "s", "v">>
\* f"Jordan_AirQuality_{safe_name}_{year}_{month}.csv"
FileNamePaddedMonth(p, y, m) ==
    FilePrefix \o SplitFirst(p) \o <<"_">> \o Str(y) \o <<"_">> \o Fmt02d(m) \o FileSuffix
FileName(p, y, m) ==
    FilePrefix \o SplitFirst(p) \o <<"_">> \o Str(y) \o <<"_">> \o Str(m) \o FileSuffix

-----------------------------------------------------------------------------
(* authenticate_gee(): what one call does, given the secret and whether    *)
(* the remote service accepts the credential on this call.                 *)
(*   ok       the function's return value                                  *)
(*   init     number of ee.Initialize/credential attempts made (the try)   *)
(*   error    st.error was called                                          *)

AuthenticateGeeAbsentOk(s, accepted) ==
    IF s = "absent" THEN [ok |-> TRUE, init |-> 0, error |-> FALSE]
    ELSE IF s = "valid" /\ accepted THEN [ok |-> TRUE, init |-> 1, error |-> FALSE]
    ELSE [ok |-> FALSE, init |-> 1, error |-> TRUE]
AuthenticateGeeRetry(s, accepted) ==
    IF s = "absent" THEN [ok |-> FALSE, init |-> 0, error |-> FALSE]
    ELSE IF s = "valid" /\ accepted THEN [ok |-> TRUE, init |-> 1, error |-> FALSE]
    ELSE [ok |-> FALSE, init |-> 2, error |-> TRUE]
AuthenticateGee(s, accepted) ==
    IF s = "absent" THEN [ok |-> FALSE, init |-> 0, error |-> FALSE]
    ELSE IF s = "valid" /\ accepted THEN [ok |-> TRUE, init |-> 1, error |-> FALSE]
    ELSE [ok |-> FALSE, init |-> 1, error |-> TRUE]

-----------------------------------------------------------------------------
(* Report rows and export                                                  *)

\* largest reduced value the remote service returns in this model
MaxValue == 0
Values == 0..MaxValue

\* the profile the run works with: config = gas_configs[pollutant]
SelectedConfigFirstOption(p) == ConfigLookup(PollutantOptions[1])
SelectedConfig(p) == ConfigLookup(p)

\* val.get(config["band"])
RowValueZeroDefault(val, band) ==
    IF DictGet(val, band) = None THEN Some(0) ELSE DictGet(val, band)
RowValue(val, band) == DictGet(val, band)

\* the dict appended for one city
Row(city, p, val, cfg, y, m) ==
    [City |-> city, Pollutant |-> p, Value |-> RowValue(val, cfg.band),
     Unit |-> cfg.unit, Date |-> DateLabel(y, m)]

\* results.append(row)
AppendResultSkipMissing(rs, row) == IF row.Value = None THEN rs ELSE Append(rs, row)
AppendResult(rs, row) == Append(rs, row)

CsvHeader == <<"City", "Pollutant", "Value", "Unit", "Date">>
\* one CSV line as its fields; a missing Value is the empty field
CsvLine(r) == <<r.City, r.Pollutant, r.Value, r.Unit, r.Date>>
\* pd.DataFrame(results).to_csv(index=False): header, then one line per row
ToCsv(rows) == <<CsvHeader>> \o [i \in 1..Len(rows) |-> CsvLine(rows[i])]

\* what image.reduceRegion(...).getInfo() can return for an image
ReduceResponses(img) ==
    IF img.empty
    THEN {<<>>, (img.band :> None)}
    ELSE {(img.band :> None)} \cup {(img.band :> Some(v)) : v \in Values}

-----------------------------------------------------------------------------
(* State                                                                   *)

VARIABLES
    secret,       \* st.secrets: "absent", "malformed" or "valid" GEE_JSON
    pollutant,    \* widget state kept by the session between runs
    year,
    month,
    pc,           \* position of the current script run
    clicked,      \* st.button("Generate Statistical Report") is True in this run
    authed,       \* outcome of authenticate_gee() in this run: "none","ok","fail"
    initCalls,    \* initialization attempts made by this run
    errorShown,   \* st.error of authenticate_gee rendered by this run
    warningShown, \* st.warning of the else branch rendered by this run
    exception,    \* an uncaught exception ended this run (shown by the host UI)
    widgetsShown, \* sidebar selectors rendered by this run
    config,       \* config of this run (optional)
    start_date,
    end_date,
    image,        \* remote image handle of this run (optional)
    mapShown,     \* map rendered by this run
    buttonShown,  \* Generate button rendered by this run
    issued,       \* cities whose reduction this run has requested, in order
    vals,         \* responses received by this run, in order
    results,      \* the results list of this run
    df,           \* table rendered by st.dataframe in this run (optional)
    download,     \* download button rendered by this run (optional)
    insight,      \* st.info of the insight panel rendered by this run
    exported      \* file handed to the browser by the step just taken (optional)

sessionVars == <<secret, pollutant, year, month>>
runVars == <<pc, clicked, authed, initCalls, errorShown, warningShown, exception,
             widgetsShown, config, start_date, end_date, image, mapShown,
             buttonShown, issued, vals, results, df, download, insight>>
vars == <<sessionVars, runVars, exported>>

Secrets == {"absent", "malformed", "valid"}
Years == YearMin..YearMax
Months == {MonthOptions[i] : i \in DOMAIN MonthOptions}
Pollutants == {PollutantOptions[i] : i \in DOMAIN PollutantOptions}

\* A session before its first script run: widgets at their defaults
\* (selectbox: first option; slider: 2024; select_slider: first option).
Init ==
    /\ secret \in Secrets
    /\ pollutant = PollutantOptions[1]
    /\ year = YearDefault
    /\ month = MonthOptions[1]
    /\ pc = "new"
    /\ clicked = FALSE
    /\ authed = "none"
    /\ initCalls = 0
    /\ errorShown = FALSE
    /\ warningShown = FALSE
    /\ exception = FALSE
    /\ widgetsShown = FALSE
    /\ config = None
    /\ start_date = <<>>
    /\ end_date = <<>>
    /\ image = None
    /\ mapShown = FALSE
    /\ buttonShown = FALSE
    /\ issued = <<>>
    /\ vals = <<>>
    /\ results = <<>>
    /\ df = None
    /\ download = None
    /\ insight = None
    /\ exported = None

-----------------------------------------------------------------------------
(* Start of a script run: lines 12-47 and, when authentication fails, the  *)
(* else branch of line 232.  Every run starts from a fresh namespace and   *)
(* an empty page, and calls authenticate_gee() again.                      *)

StartRun(click) ==
    \E accepted \in BOOLEAN :
      LET a == AuthenticateGee(secret, accepted) IN
        /\ clicked' = click
        /\ authed' = IF a.ok THEN "ok" ELSE "fail"
        /\ initCalls' = a.init
        /\ errorShown' = a.error
        /\ warningShown' = ~a.ok
        /\ pc' = IF a.ok THEN "widgets" ELSE "done"
        /\ exception' = FALSE
        /\ widgetsShown' = FALSE
        /\ config' = None
        /\ start_date' = <<>>
        /\ end_date' = <<>>
        /\ image' = None
        /\ mapShown' = FALSE
        /\ buttonShown' = FALSE
        /\ issued' = <<>>
        /\ vals' = <<>>
        /\ results' = <<>>
        /\ df' = None
        /\ download' = None
        /\ insight' = None

(* User events.  The host UI accepts them between runs; each starts a run. *)

PageLoad ==
    /\ pc = "new"
    /\ StartRun(FALSE)
    /\ exported' = None
    /\ UNCHANGED sessionVars

Rerun ==
    /\ pc = "done"
    /\ StartRun(FALSE)
    /\ exported' = None
    /\ UNCHANGED sessionVars

SelectPollutant ==
    /\ pc = "done" /\ widgetsShown
    /\ \E p \in Pollutants : p # pollutant /\ pollutant' = p
    /\ StartRun(FALSE)
    /\ exported' = None
    /\ UNCHANGED <<secret, year, month>>

SelectYear ==
    /\ pc = "done" /\ widgetsShown
    /\ \E y \in Years : y # year /\ year' = y
    /\ StartRun(FALSE)
    /\ exported' = None
    /\ UNCHANGED <<secret, pollutant, month>>

SelectMonth ==
    /\ pc = "done" /\ widgetsShown
    /\ \E m \in Months : m # month /\ month' = m
    /\ StartRun(FALSE)
    /\ exported' = None
    /\ UNCHANGED <<secret, pollutant, year>>

ClickGenerate ==
    /\ pc = "done" /\ buttonShown
    /\ StartRun(TRUE)
    /\ exported' = None
    /\ UNCHANGED sessionVars

\* st.download_button: the browser receives the button's data under its
\* file_name, and the click starts a run like any other widget event.
ClickDownload ==
    /\ pc = "done" /\ download # None
    /\ exported' = download
    /\ StartRun(FALSE)
    /\ UNCHANGED sessionVars

-----------------------------------------------------------------------------
(* The body of `if authenticate_gee():`, one action per section            *)

\* s.startswith(prefix)
StartsWith(s, prefix) ==
    Len(s) >= Len(prefix) /\ SubSeq(s, 1, Len(prefix)) = prefix

\* section 8: the st.info chosen by the if/elif chain (None when no branch matches)
InsightFor(p) ==
    IF StartsWith(p, <<"N","i","t","r","o","g","e","n">>) THEN Some("NO2")
    ELSE IF StartsWith(p, <<"S","u","l","f","u","r">>) THEN Some("SO2")
    ELSE IF StartsWith(p, <<"C","a","r","b","o","n">>) THEN Some("CO")
    ELSE IF StartsWith(p, <<"A","e","r","o","s","o","l">>) THEN Some("Aerosol")
    ELSE None

\* lines 55-123: selectors, registry lookup, date handling
Configure ==
    /\ pc = "widgets"
    /\ widgetsShown' = TRUE
    /\ LET c == SelectedConfig(pollutant) IN
         IF c = None
         THEN \* KeyError at line 114
              /\ exception' = TRUE
              /\ pc' = "done"
              /\ UNCHANGED <<config, start_date, end_date>>
         ELSE /\ config' = c
              /\ start_date' = StartDate(year, month)
              /\ end_date' = EndDate(year, month)
              /\ pc' = "query"
              /\ UNCHANGED exception
    /\ exported' = None
    /\ UNCHANGED <<sessionVars, clicked, authed, initCalls, errorShown, warningShown,
                   image, mapShown, buttonShown, issued, vals, results, df,
                   download, insight>>

\* lines 128-140: the lazy image handle.  Whether the archive holds any
\* image of the collection in [start_date, end_date) is the archive's
\* business: `empty` is chosen by the environment.
BuildQuery ==
    /\ pc = "query"
    /\ \E e \in BOOLEAN :
         image' = Some([collection |-> config[1].collection, band |-> config[1].band,
                        start |-> start_date, end |-> end_date, empty |-> e])
    /\ pc' = "map"
    /\ exported' = None
    /\ UNCHANGED <<sessionVars, clicked, authed, initCalls, errorShown, warningShown,
                   exception, widgetsShown, config, start_date, end_date, mapShown,
                   buttonShown, issued, vals, results, df, download, insight>>

\* lines 145-166: metrics and map; the remote tile request succeeds or raises
RenderMap ==
    /\ pc = "map"
    /\ \/ /\ mapShown' = TRUE
          /\ pc' = "button"
          /\ UNCHANGED exception
       \/ /\ exception' = TRUE
          /\ pc' = "done"
          /\ UNCHANGED mapShown
    /\ exported' = None
    /\ UNCHANGED <<sessionVars, clicked, authed, initCalls, errorShown, warningShown,
                   widgetsShown, config, start_date, end_date, image, buttonShown,
                   issued, vals, results, df, download, insight>>

\* the condition of line 174
ShouldGenerateAlways(c) == TRUE
ShouldGenerate(c) == c

\* line 174 with the button not pressed in this run, then section 8
ButtonIdle ==
    /\ pc = "button"
    /\ ~ShouldGenerate(clicked)
    /\ buttonShown' = TRUE
    /\ insight' = InsightFor(pollutant)
    /\ pc' = "done"
    /\ exported' = None
    /\ UNCHANGED <<sessionVars, clicked, authed, initCalls, errorShown, warningShown,
                   exception, widgetsShown, config, start_date, end_date, image,
                   mapShown, issued, vals, results, df, download>>

\* lines 174-185: the button was pressed; results = []
ButtonPressed ==
    /\ pc = "button"
    /\ ShouldGenerate(clicked)
    /\ buttonShown' = TRUE
    /\ results' = <<>>
    /\ pc' = "loop"
    /\ exported' = None
    /\ UNCHANGED <<sessionVars, clicked, authed, initCalls, errorShown, warningShown,
                   exception, widgetsShown, config, start_date, end_date, image,
                   mapShown, issued, vals, df, download, insight>>

\* lines 187-194: the next city of the loop; its reduction is requested
IssueReduce ==
    /\ pc = "loop"
    /\ Len(issued) < Len(locations)
    /\ issued' = Append(issued, locations[Len(issued) + 1])
    /\ pc' = "wait"
    /\ exported' = None
    /\ UNCHANGED <<sessionVars, clicked, authed, initCalls, errorShown, warningShown,
                   exception, widgetsShown, config, start_date, end_date, image,
                   mapShown, buttonShown, vals, results, df, download, insight>>

\* lines 194-202: getInfo() returns; the row is appended
ReduceReturns ==
    /\ pc = "wait"
    /\ \E val \in ReduceResponses(image[1]) :
         /\ vals' = Append(vals, val)
         /\ results' = AppendResult(results,
                Row(issued[Len(issued)], pollutant, val, config[1], year, month))
    /\ pc' = "loop"
    /\ exported' = None
    /\ UNCHANGED <<sessionVars, clicked, authed, initCalls, errorShown, warningShown,
                   exception, widgetsShown, config, start_date, end_date, image,
                   mapShown, buttonShown, issued, df, download, insight>>

\* line 194: getInfo() raises; nothing catches it, the run ends
ReduceRaisesSwallowed ==
    /\ pc = "wait"
    /\ pc' = "loop"
    /\ exported' = None
    /\ UNCHANGED <<sessionVars, clicked, authed, initCalls, errorShown, warningShown,
                   exception, widgetsShown, config, start_date, end_date, image,
                   mapShown, buttonShown, issued, vals, results, df, download, insight>>
ReduceRaises ==
    /\ pc = "wait"
    /\ exception' = TRUE
    /\ pc' = "done"
    /\ exported' = None
    /\ UNCHANGED <<sessionVars, clicked, authed, initCalls, errorShown, warningShown,
                   widgetsShown, config, start_date, end_date, image, mapShown,
                   buttonShown, issued, vals, results, df, download, insight>>

\* lines 204-215 after the loop, then section 8
ShowReport ==
    /\ pc = "loop"
    /\ Len(issued) = Len(locations)
    /\ df' = Some(results)
    /\ download' = Some([data |-> ToCsv(results),
                         file_name |-> FileName(pollutant, year, month)])
    /\ insight' = InsightFor(pollutant)
    /\ pc' = "done"
    /\ exported' = None
    /\ UNCHANGED <<sessionVars, clicked, authed, initCalls, errorShown, warningShown,
                   exception, widgetsShown, config, start_date, end_date, image,
                   mapShown, buttonShown, issued, vals, results>>

Next ==
    \/ PageLoad
    \/ Rerun
    \/ SelectPollutant
    \/ SelectYear
    \/ SelectMonth
    \/ ClickGenerate
    \/ ClickDownload
    \/ Configure
    \/ BuildQuery
    \/ RenderMap
    \/ ButtonIdle
    \/ ButtonPressed
    \/ IssueReduce
    \/ ReduceReturns
    \/ ReduceRaises
    \/ ShowReport

Spec == Init /\ [][Next]_vars

-----------------------------------------------------------------------------
(* The registry lookup on an arbitrary name: the selectors and the lookup  *)
(* of lines 55-123 run with the pollutant drawn from the option strings    *)
(* and their prefixes (the empty string and the first words included).     *)

LookupInputs ==
    UNION {{SubSeq(PollutantOptions[i], 1, k) : k \in 0..Len(PollutantOptions[i])} :
              i \in DOMAIN PollutantOptions}

InitLookup ==
    /\ secret = "valid"
    /\ pollutant \in LookupInputs
    /\ year = YearDefault
    /\ month = MonthOptions[1]
    /\ pc = "widgets"
    /\ clicked = FALSE
    /\ authed = "ok"
    /\ initCalls = 1
    /\ errorShown = FALSE
    /\ warningShown = FALSE
    /\ exception = FALSE
    /\ widgetsShown = FALSE
    /\ config = None
    /\ start_date = <<>>
    /\ end_date = <<>>
    /\ image = None
    /\ mapShown = FALSE
    /\ buttonShown = FALSE
    /\ issued = <<>>
    /\ vals = <<>>
    /\ results = <<>>
    /\ df = None
    /\ download = None
    /\ insight = None
    /\ exported = None

NextLookup == Configure

SpecLookup == InitLookup /\ [][NextLookup]_vars

-----------------------------------------------------------------------------
(* Properties                                                              *)

\* reading a date string back: the number written by characters a..b of s
DigitVal(c) == CASE c = "0" -> 0 [] c = "1" -> 1 [] c = "2" -> 2 [] c = "3" -> 3
                 [] c = "4" -> 4 [] c = "5" -> 5 [] c = "6" -> 6 [] c = "7" -> 7
                 [] c = "8" -> 8 [] c = "9" -> 9 [] OTHER -> -1000000
RECURSIVE NumberAt(_, _, _)
NumberAt(s, a, b) ==
    IF a > b THEN 0 ELSE 10 * NumberAt(s, a, b - 1) + DigitVal(s[b])

\* s is "YYYY-MM-DD" and names the given day
IsIsoDate(s, y, m, d) ==
    /\ Len(s) = 10
    /\ s[5] = "-" /\ s[8] = "-"
    /\ NumberAt(s, 1, 4) = y
    /\ NumberAt(s, 6, 7) = m
    /\ NumberAt(s, 9, 10) = d

\* s is "YYYY-MM" and names the given month
IsYearMonth(s, y, m) ==
    /\ Len(s) = 7
    /\ s[5] = "-"
    /\ NumberAt(s, 1, 4) = y
    /\ NumberAt(s, 6, 7) = m

ExpectedCities == <<"Irbid", "Amman", "Zarqa", "Aqaba", "Mafraq">>

\* the response carries no value for the band
NoValue(val, band) == band \notin DOMAIN val \/ val[band] = None

\* nothing below `if authenticate_gee():` has run in this run
NothingDownstream ==
    /\ ~widgetsShown /\ config = None /\ image = None /\ ~mapShown
    /\ ~buttonShown /\ issued = <<>> /\ vals = <<>> /\ results = <<>>
    /\ df = None /\ download = None /\ insight = None

(* C1: once the date handling has run, start_date is 'YYYY-MM-01' of the   *)
(* selected year and zero-padded month, and end_date is the first day of   *)
(* the next month: same year, month+1 below December; year+1, month 01 in  *)
(* December.                                                               *)
Thm_C1 ==
    start_date # <<>> =>
        /\ IsIsoDate(start_date, year, month, 1)
        /\ month < 12 => IsIsoDate(end_date, year, month + 1, 1)
        /\ month = 12 => IsIsoDate(end_date, year + 1, 1, 1)

Wit_C1 ==
    /\ year = 2024 /\ month = 12
    /\ start_date = <<"2","0","2","4","-","1","2","-","0","1">>
    /\ end_date = <<"2","0","2","5","-","0","1","-","0","1">>

(* C2: every rendered report has exactly 5 rows, one per city, in the      *)
(* order Irbid, Amman, Zarqa, Aqaba, Mafraq, whichever reductions          *)
(* returned a missing value.                                               *)
Thm_C2 ==
    df # None =>
        /\ Len(df[1]) = 5
        /\ \A i \in 1..5 : df[1][i].City = ExpectedCities[i]

Wit_C2 ==
    /\ df # None
    /\ df[1][1].Value = None
    /\ df[1][2].Value # None
    /\ df[1][5].Value = None

(* C3: in a rendered report the i-th row's Value is null exactly when the  *)
(* i-th reduction returned no value for the band, is the returned value    *)
(* otherwise (a returned 0 stays 0, a missing value never becomes 0), and  *)
(* when the window held no image all 5 rows are present with null Values.  *)
Thm_C3 ==
    df # None =>
        /\ Len(df[1]) = 5 /\ Len(vals) = 5
        /\ \A i \in 1..5 :
             /\ (df[1][i].Value = None) <=> NoValue(vals[i], config[1].band)
             /\ ~NoValue(vals[i], config[1].band) =>
                    df[1][i].Value = vals[i][config[1].band]
        /\ image[1].empty => \A i \in 1..5 : df[1][i].Value = None

Wit_C3 ==
    /\ df # None
    /\ image[1].empty
    /\ Len(df[1]) = 5
    /\ \A i \in 1..5 : df[1][i].Value = None

(* C4: the report on the page is the one built by the current run from     *)
(* the current selection: 5 rows, each with the selected pollutant, that   *)
(* pollutant's unit and the selected year-month; no row of an earlier      *)
(* report is in it.                                                        *)
Thm_C4 ==
    df # None =>
        /\ Len(df[1]) = 5
        /\ \A i \in 1..Len(df[1]) :
             /\ df[1][i].Pollutant = pollutant
             /\ df[1][i].Unit = gas_configs[pollutant].unit
             /\ IsYearMonth(df[1][i].Date, year, month)

Wit_C4 ==
    /\ df # None
    /\ pollutant = AerName /\ year = 2019 /\ month = 12
    /\ df[1][1].Unit = "Index"

(* C5: with the secret absent authenticate_gee returns False without an    *)
(* initialization attempt and only the warning is shown; and in any run    *)
(* whose authentication did not succeed nothing downstream has run: no     *)
(* selectors, query, map, reduction, report, download or insight.          *)
Thm_C5 ==
    /\ authed # "ok" => NothingDownstream
    /\ (secret = "absent" /\ pc # "new") =>
          /\ authed = "fail" /\ initCalls = 0
          /\ warningShown /\ ~errorShown /\ pc = "done"

Wit_C5 == secret = "absent" /\ pc = "done" /\ warningShown /\ authed = "fail"

(* C6 as stated: once an authentication with a present credential has      *)
(* failed, no later step of the session makes another initialization       *)
(* attempt and the session stays unauthenticated.                          *)
Orig_C6 ==
    [][(authed = "fail" /\ secret # "absent") =>
          (initCalls' = 0 /\ authed' = "fail")]_vars

(* C6 amended: a present credential that is malformed or rejected makes    *)
(* the run's authentication fail with the error shown after exactly one    *)
(* initialization attempt (no retry inside the run), and that run ends     *)
(* with nothing downstream executed; a malformed credential fails in       *)
(* every run.                                                              *)
Thm_C6 ==
    /\ initCalls <= 1
    /\ (authed = "fail" /\ secret # "absent") =>
          /\ initCalls = 1 /\ errorShown /\ warningShown
          /\ pc = "done" /\ NothingDownstream
    /\ (secret = "malformed" /\ pc # "new") => authed = "fail"
    /\ authed = "ok" => (secret = "valid" /\ ~errorShown /\ ~warningShown)

Wit_C6 == secret = "valid" /\ authed = "fail" /\ errorShown /\ pc = "done"

\* the profile documented for each of the four pollutant names
DocumentedProfile(name) ==
    CASE name = <<"N","i","t","r","o","g","e","n"," ","D","i","o","x","i","d","e",
                  " ","(","N","O","2",")">> ->
           [collection |-> "COPERNICUS/S5P/OFFL/L3_NO2",
            band |-> "tropospheric_NO2_column_number_density",
            min |-> 0, max |-> 2,
            palette |-> <<"black", "blue", "purple", "cyan", "green", "yellow", "red">>,
            unit |-> "mol/m²"]
      [] name = <<"S","u","l","f","u","r"," ","D","i","o","x","i","d","e",
                  " ","(","S","O","2",")">> ->
           [collection |-> "COPERNICUS/S5P/OFFL/L3_SO2",
            band |-> "SO2_column_number_density",
            min |-> 0, max |-> 5,
            palette |-> <<"blue", "green", "yellow", "orange", "red">>,
            unit |-> "mol/m²"]
      [] name = <<"C","a","r","b","o","n"," ","M","o","n","o","x","i","d","e",
                  " ","(","C","O",")">> ->
           [collection |-> "COPERNICUS/S5P/OFFL/L3_CO",
            band |-> "CO_column_number_density",
            min |-> 0, max |-> 500,
            palette |-> <<"black", "blue", "purple", "cyan", "green", "yellow", "red">>,
            unit |-> "mol/m²"]
      [] name = <<"A","e","r","o","s","o","l"," ","I","n","d","e","x",
                  " ","(","D","u","s","t","/","S","m","o","k","e",")">> ->
           [collection |-> "COPERNICUS/S5P/OFFL/L3_AER_AI",
            band |-> "absorbing_aerosol_index",
            min |-> -10000, max |-> 20000,
            palette |-> <<"black", "blue", "purple", "cyan", "green", "yellow", "red">>,
            unit |-> "Index"]
      [] OTHER -> <<>>

(* C7: after the lookup of line 114, a name that is one of the four        *)
(* pollutant names has exactly its documented profile as config; any other *)
(* name has raised (no config, the run ended); and every option of the     *)
(* selector is one of the four, so the lookup of a selectable name does    *)
(* not raise.                                                              *)
Thm_C7 ==
    /\ \A i \in DOMAIN PollutantOptions :
          DocumentedProfile(PollutantOptions[i]) # <<>>
    /\ pc # "widgets" =>
          IF DocumentedProfile(pollutant) # <<>>
          THEN /\ config = Some(DocumentedProfile(pollutant))
               /\ ~exception /\ pc = "query"
          ELSE /\ config = None /\ exception /\ pc = "done"

Wit_C7 ==
    /\ pollutant = <<"N","i","t","r","o","g","e","n">>
    /\ exception /\ pc = "done" /\ config = None

(* C8: a file reaches the browser only by a step taken while the download  *)
(* button is on the page of a finished run, and it is that button's file;  *)
(* a download button is on the page only in a run started by the Generate  *)
(* button, together with the report table, and its data is the header      *)
(* followed by one line per row of that table.                             *)
Thm_C8 ==
    [][/\ exported' # None =>
             (pc = "done" /\ download # None /\ exported' = download)
       /\ download' # None =>
             /\ clicked' /\ df' # None
             /\ Len(download'[1].data) = 1 + Len(df'[1])
             /\ download'[1].data[1] = <<"City", "Pollutant", "Value", "Unit", "Date">>
             /\ \A i \in 1..Len(df'[1]) :
                  download'[1].data[i + 1] =
                      <<df'[1][i].City, df'[1][i].Pollutant, df'[1][i].Value,
                        df'[1][i].Unit, df'[1][i].Date>>]_vars

Wit_C8 ==
    /\ exported # None
    /\ Len(exported[1].data) = 6
    /\ download = None

\* the first word of each pollutant name
ExpectedShortName(p) ==
    CASE p = NO2Name -> <<"N","i","t","r","o","g","e","n">>
      [] p = SO2Name -> <<"S","u","l","f","u","r">>
      [] p = COName  -> <<"C","a","r","b","o","n">>
      [] p = AerName -> <<"A","e","r","o","s","o","l">>

ExpectedUnit(p) == IF p = AerName THEN "Index" ELSE "mol/m²"

YearDigits(y) ==
    <<Digit(y \div 1000), Digit((y \div 100) % 10), Digit((y \div 10) % 10), Digit(y % 10)>>
MonthDigits(m) == IF m < 10 THEN <<Digit(m)>> ELSE <<"1", Digit(m - 10)>>

(* C9: with the report and download button rendered, every row has the     *)
(* selected pollutant's registry unit and the Date 'YYYY-MM' (month        *)
(* zero-padded), and the file name is                                      *)
(* Jordan_AirQuality_<first word>_<year>_<month unpadded>.csv.             *)
Thm_C9 ==
    download # None =>
        /\ df # None /\ Len(df[1]) = 5
        /\ \A i \in 1..Len(df[1]) :
             /\ df[1][i].Unit = ExpectedUnit(pollutant)
             /\ IsYearMonth(df[1][i].Date, year, month)
        /\ download[1].file_name =
             <<"J","o","r","d","a","n","_","A","i","r","Q","u","a","l","i","t","y","_">>
             \o ExpectedShortName(pollutant) \o <<"_">> \o YearDigits(year)
             \o <<"_">> \o MonthDigits(month) \o <<".","c","s","v">>

Wit_C9 ==
    /\ download # None /\ df # None
    /\ pollutant = NO2Name /\ year = 2024 /\ month = 6
    /\ start_date = <<"2","0","2","4","-","0","6","-","0","1">>
    /\ end_date = <<"2","0","2","4","-","0","7","-","0","1">>
    /\ \A i \in 1..5 : df[1][i].Unit = "mol/m²"
                       /\ df[1][i].Date = <<"2","0","2","4","-","0","6">>
    /\ download[1].file_name =
         <<"J","o","r","d","a","n","_","A","i","r","Q","u","a","l","i","t","y","_",
           "N","i","t","r","o","g","e","n","_","2","0","2","4","_","6",".","c","s","v">>

(* C10: the reductions are requested in city order, one at a time: the     *)
(* requests made are a prefix of the city list and at most one lacks its   *)
(* response, only while it is awaited or after it raised; a raised error   *)
(* ends the run with the error shown, without a further request, a table   *)
(* or a download button; a table is rendered only after all five           *)
(* responses arrived.                                                      *)
Thm_C10 ==
    /\ Len(issued) <= 5
    /\ \A i \in 1..Len(issued) : issued[i] = ExpectedCities[i]
    /\ Len(vals) = Len(results)
    /\ IF pc = "wait" \/ (exception /\ issued # <<>>)
       THEN Len(issued) = Len(vals) + 1
       ELSE Len(issued) = Len(vals)
    /\ exception => (pc = "done" /\ df = None /\ download = None)
    /\ df # None => (~exception /\ Len(vals) = 5 /\ download # None)

Wit_C10 ==
    /\ exception /\ pc = "done"
    /\ Len(issued) = 3 /\ Len(results) = 2
    /\ df = None /\ download = None

====
